---- MODULE Spec2Model ----
(***************************************************************************)
(* The gateway connection manager of GatewayMgr.py: the length-prefixed    *)
(* packet codec (Packet), the unlocked connection fields (_gw_fd_raw,      *)
(* gw_fd), the send queue, the callback table and the greenlets _send,     *)
(* _recv and _heartbeat, plus one caller greenlet that issues send_push.   *)
(* gevent schedules cooperatively: a greenlet runs until it blocks, so     *)
(* each action is the code between two blocking calls (queue get, TCP/TLS  *)
(* connect, write, wait_read).                                             *)
(*                                                                         *)
(* Spec interleaves everything.  _send and _recv share only the connection *)
(* fields, which _recv reads and never writes, and the callback table,     *)
(* which _send never touches; SpecSend (the producers and _send) and       *)
(* SpecRecv (the gateway, _recv and the tracked send_push calls) are the   *)
(* two sides taken alone, and the properties of one side are checked there.*)
(* SpecBoth runs both sides against a gateway that returns receipts for    *)
(* what was written; SpecShut adds shutdown() under a fair scheduler;      *)
(* SpecDec applies Packet.UnPack alone to a set of buffers.                *)
(***************************************************************************)
EXTENDS Integers, Sequences, FiniteSets, TLC

\* ---------------------------------------------------------------- bounds
MaxPush == 1
MaxBeat == 1
MaxSock == 3
MaxIn == 2
MaxTail == 6

\* ------------------------------------------------------ program constants
MSG_CLIENT == 1
MSG_AUTH == 2
MSG_HEARTBEAT == 4
MSG_RECEIPT == 8
MSG_EVENT == 64
MAX_PACKET_LENGTH == 1048576
\* for _ in range(2)
AttemptsOneMore == 2 + 1
Attempts == 2

None == 0
PUSH_SERVER_SID == "00000001"
STATUS_SUCCESS == "STATUS_SUCCESS"
\* binascii.hexlify(os.urandom(9)): 18 hex characters
RandHex == {"0f1e2d3c4b5a697887"}
AuthBody == "{\"token\":\"foo\"}"

\* ------------------------------------------------------------ strings
RECURSIVE RJust(_, _)
\* '%07s' % s: the 0 flag does not apply to strings, the field is padded
\* with spaces on the left to width 7
RJust(s, w) == IF Len(s) >= w THEN s ELSE RJust(" " \o s, w)

\* '%07s-%s' % (bundle.msg.msgid, bundle.user.guid)
PushMid(msgid, guid) == RJust(msgid, 7) \o "-" \o guid

\* mid = 'PSH' + (mid or binascii.hexlify(os.urandom(9)))
MakeMidAsGiven(mid, rnd) == IF mid # "" THEN mid ELSE "PSH" \o rnd
MakeMid(mid, rnd) == "PSH" \o (IF mid # "" THEN mid ELSE rnd)

\* the bundles a caller hands to send_push: one with a callback, one without
Bundles ==
  { [msgid |-> "1", guid |-> "u1", payload |-> "hi", callback |-> 1],
    [msgid |-> "2", guid |-> "u1", payload |-> "yo", callback |-> None] }

\* the message ids _queued_send gives the two bundles, and the one it draws
Mid1 == MakeMid(PushMid("1", "u1"), "")
Mid2 == MakeMid(PushMid("2", "u1"), "")
TrackedMids == {Mid1, Mid2}

ReceiptBody(m) == "{\"type\":\"receipt\",\"mid\":\"" \o m \o "\"}"
OfflineBody == "{\"type\":\"offline\"}"
OnlineBody == "{\"type\":\"online\"}"
ChatBody == "{\"type\":\"chat\"}"

\* json.loads on the bodies that occur; '' never reaches it (line 242)
JsonLoads(body) ==
  IF \E m \in TrackedMids : body = ReceiptBody(m)
  THEN [type |-> "receipt",
        mid |-> CHOOSE m \in TrackedMids : body = ReceiptBody(m)]
  ELSE IF body = OfflineBody THEN [type |-> "offline"]
  ELSE IF body = OnlineBody THEN [type |-> "online"]
  ELSE IF body = ChatBody THEN [type |-> "chat"]
  ELSE IF body = AuthBody THEN [token |-> "foo"]
  ELSE <<>>

\* ------------------------------------------------------------ the codec
\* every string a Container field holds in this model, for the byte encoding
StrTable ==
  << "", "0", "u1", "S1", PUSH_SERVER_SID, AuthBody, "hi", "yo", OfflineBody,
     OnlineBody, ChatBody, Mid1, Mid2, ReceiptBody(Mid1), ReceiptBody(Mid2) >>
  \o [i \in 1..Cardinality(RandHex) |->
        MakeMid("", CHOOSE r \in RandHex : TRUE)]

EncStr(s) == CHOOSE i \in DOMAIN StrTable : StrTable[i] = s

\* Container.SerializeToString: one octet per field, strings by table index
SerializeToString(msg) ==
  << EncStr(msg.SID), EncStr(msg.RID), EncStr(msg.MID), msg.STIME, msg.TYPE,
     EncStr(msg.BODY) >>

\* Container.ParseFromString
ParseFromString(raw) ==
  [SID |-> StrTable[raw[1]], RID |-> StrTable[raw[2]], MID |-> StrTable[raw[3]],
   STIME |-> raw[4], TYPE |-> raw[5], BODY |-> StrTable[raw[6]]]

\* struct.pack('>I', n)
PackU32(n) ==
  << (n \div 16777216) % 256, (n \div 65536) % 256, (n \div 256) % 256, n % 256 >>

\* struct.unpack('>I', b)[0]
UnpackU32(b) == ((b[1] * 256 + b[2]) * 256 + b[3]) * 256 + b[4]

\* Packet.Pack
Pack(msg) ==
  LET raw == SerializeToString(msg) IN PackU32(Len(raw)) \o raw

\* the check of line 87 that the whole payload has arrived
NeedPayload(data, length) == Len(data) < 4 + length

\* Packet.UnPack: err is the exception raised, "" for a return
UnPackPayloadFirst(data) ==
  IF Len(data) < 4 THEN [err |-> "DataNeededError"]
  ELSE LET length == UnpackU32(SubSeq(data, 1, 4)) IN
       IF NeedPayload(data, length) THEN [err |-> "DataNeededError"]
       ELSE IF length > MAX_PACKET_LENGTH THEN [err |-> "MaxLengthError"]
       ELSE [err |-> "", msg |-> ParseFromString(SubSeq(data, 5, 4 + length))]
UnPack(data) ==
  IF Len(data) < 4 THEN [err |-> "DataNeededError"]
  ELSE LET length == UnpackU32(SubSeq(data, 1, 4)) IN
       IF length > MAX_PACKET_LENGTH THEN [err |-> "MaxLengthError"]
       ELSE IF NeedPayload(data, length) THEN [err |-> "DataNeededError"]
       ELSE [err |-> "", msg |-> ParseFromString(SubSeq(data, 5, 4 + length))]

\* the Container _queued_send builds (lines 168-174)
Container(rid, msgtype, body, mid) ==
  [SID |-> PUSH_SERVER_SID, RID |-> rid, MID |-> mid, STIME |-> 0,
   TYPE |-> msgtype, BODY |-> body]

BitSet(type, flag) == (type \div flag) % 2 = 1

\* MSG_A | MSG_B for two distinct flags
BitOr(a, b) == a + b

\* ------------------------------------------------- queue, table, sockets
NoItem == [seq |-> 0, data |-> <<>>]
NoBundle == [msgid |-> "", guid |-> "", payload |-> "", callback |-> None]

\* Queue.get hands out the oldest item: its position in the queue
QueueGetNewest(q) == Len(q)
QueueGetIndex(q) == 1

QueueRest(q, i) == SubSeq(q, 1, i - 1) \o SubSeq(q, i + 1, Len(q))

\* Queue.put
QueuePut(q, item) == Append(q, item)

\* not self.gw_fd or not self._gw_fd_raw
Disconnected(fd, raw) == fd = None \/ raw = None

\* self.callback_tbl[mid] = callback
TblSet(tbl, mid, cb) ==
  [m \in DOMAIN tbl \cup {mid} |-> IF m = mid THEN cb ELSE tbl[m]]

\* what callback_tbl.pop(mid) leaves in the table
TblPopKeep(tbl, mid) == tbl
TblPop(tbl, mid) == [m \in DOMAIN tbl \ {mid} |-> tbl[m]]

Unopened(sk) == {s \in DOMAIN sk : sk[s] = "unopened"}
NewSock(sk) == CHOOSE s \in Unopened(sk) : \A t \in Unopened(sk) : s <= t

\* socket.socket(socket.AF_INET, socket.SOCK_STREAM)
OpenSock(sk) == [sk EXCEPT ![NewSock(sk)] = "open"]

\* try: self._gw_fd_raw.close() except: pass
CloseSock(sk, raw) == IF raw = None THEN sk ELSE [sk EXCEPT ![raw] = "closed"]

\* the item auth() puts on the queue during construction
AuthItem ==
  [seq |-> 1,
   data |-> Pack(Container("", BitOr(MSG_CLIENT, MSG_AUTH), AuthBody,
                           MakeMid("", CHOOSE r \in RandHex : TRUE)))]

\* the send queue after connect() (lines 126-130): connect() opens the
\* socket and wraps it, and puts nothing on the queue; auth() is called by
\* __init__ only
QueueAfterConnectAuth(q) == QueuePut(q, AuthItem)
QueueAfterConnect(q) == q

\* the send queue when __init__ returns
ConstructedQueueNoAuth == <<>>
ConstructedQueue == QueuePut(<<>>, AuthItem)

\* the status a receipt callback is called with
CallbackStatusFail == "STATUS_FAIL"
CallbackStatus == STATUS_SUCCESS

\* self.callback_tbl after _send gave up on the packet data: "if not ok" only
\* logs the warning (lines 202-203), the table is not touched
TblAfterDropForget(tbl, data) == TblPop(tbl, UnPack(data).msg.MID)
TblAfterDrop(tbl, data) == tbl

\* _recv's buf after UnPack raised DataNeededError: it is kept (continue)
BufAfterNeedMoreCleared(acc) == <<>>
BufAfterNeedMore(acc) == acc

\* _recv's buf after UnPack returned a message: buf = '' (line 222)
BufAfterDecodeKeepRest(acc) ==
  SubSeq(acc, 5 + UnpackU32(SubSeq(acc, 1, 4)), Len(acc))
BufAfterDecode(acc) == <<>>

\* ------------------------------------------------- the response handler
\* what the collaborator called for msg may do: a receipt callback returns,
\* raises an Exception or raises KeyboardInterrupt; the presence store's
\* delToOnlineTable returns or raises InconsistentError (an InconsistentError
\* of online_callback or offline_callback is caught after the call and
\* changes nothing more); any other message calls no collaborator
Outcomes(msg, tbl) ==
  LET body == IF msg.BODY # "" THEN JsonLoads(msg.BODY) ELSE <<>> IN
  IF "type" \notin DOMAIN body THEN {"ok"}
  ELSE IF BitSet(msg.TYPE, MSG_CLIENT)
  THEN IF body["type"] = "receipt" /\ "mid" \in DOMAIN body
       THEN IF body["mid"] \in DOMAIN tbl
            THEN {"ok", "Exception", "KeyboardInterrupt"}
            ELSE {"ok"}
       ELSE {"ok"}
  ELSE IF BitSet(msg.TYPE, MSG_EVENT) /\ body["type"] = "offline"
       THEN {"ok", "InconsistentError"}
       ELSE {"ok"}

\* the collaborator calls of the offline branch (lines 274-278), in order:
\* delToOnlineTable(sid), then offline_callback(sid) unless the first raised
OfflineCallsSwapped(sid, o) ==
  IF o = "InconsistentError"
  THEN << <<"delToOnlineTable", sid>> >>
  ELSE << <<"offline", sid>>, <<"delToOnlineTable", sid>> >>
OfflineCalls(sid, o) ==
  IF o = "InconsistentError"
  THEN << <<"delToOnlineTable", sid>> >>
  ELSE << <<"delToOnlineTable", sid>>, <<"offline", sid>> >>

\* the try around _func(...) (lines 253-259): what leaves the handler when
\* the callback did o; KeyboardInterrupt is re-raised, Exception is logged
CallbackEscapesAll(o) == IF o \in {"KeyboardInterrupt", "Exception"} THEN o ELSE ""
CallbackEscapes(o) == IF o = "KeyboardInterrupt" THEN o ELSE ""

\* _resp_handler(msg) on table tbl, the collaborator doing o.
\* exc is the exception that leaves the handler, "" for a return.
RespHandler(msg, tbl, o) ==
  LET msg_body == IF msg.BODY # "" THEN JsonLoads(msg.BODY) ELSE <<>>
      quiet == [exc |-> "", tbl |-> tbl, calls |-> <<>>, events |-> <<>>]
  IN
  IF BitSet(msg.TYPE, MSG_CLIENT)
  THEN IF "type" \notin DOMAIN msg_body THEN [quiet EXCEPT !.exc = "KeyError"]
       ELSE IF msg_body["type"] = "receipt"
       THEN IF "mid" \notin DOMAIN msg_body
            THEN [quiet EXCEPT !.exc = "KeyError"]
            ELSE LET mid == msg_body["mid"] IN
                 IF mid \in DOMAIN tbl
                 THEN [exc |-> CallbackEscapes(o),
                       tbl |-> TblPop(tbl, mid),
                       calls |-> << [mid |-> mid, cb |-> tbl[mid],
                                     status |-> CallbackStatus,
                                     raised |-> IF o \in {"Exception", "KeyboardInterrupt"}
                                               THEN o ELSE ""] >>,
                       events |-> <<>>]
                 ELSE quiet
       ELSE quiet
  ELSE IF BitSet(msg.TYPE, MSG_EVENT)
       THEN IF "type" \notin DOMAIN msg_body
            THEN [quiet EXCEPT !.exc = "KeyError"]
            ELSE IF msg_body["type"] = "online"
            THEN [quiet EXCEPT !.events = << <<"online", msg.SID>> >>]
            ELSE IF msg_body["type"] = "offline"
            THEN [quiet EXCEPT !.events = OfflineCalls(msg.SID, o)]
            ELSE quiet
       ELSE quiet

\* what the gateway sends in this model: a receipt for the tracked push, a
\* client frame with an empty body, a client chat frame, the two presence
\* events, and (PeerData) a length prefix above MAX_PACKET_LENGTH
PeerFrames ==
  { [SID |-> "u1", RID |-> PUSH_SERVER_SID, MID |-> "", STIME |-> 0,
     TYPE |-> MSG_CLIENT, BODY |-> ReceiptBody(Mid1)],
    [SID |-> "u1", RID |-> PUSH_SERVER_SID, MID |-> "", STIME |-> 0,
     TYPE |-> MSG_CLIENT, BODY |-> ""],
    [SID |-> "u1", RID |-> PUSH_SERVER_SID, MID |-> "", STIME |-> 0,
     TYPE |-> MSG_CLIENT, BODY |-> ChatBody],
    [SID |-> "S1", RID |-> "", MID |-> "", STIME |-> 0,
     TYPE |-> MSG_EVENT, BODY |-> OfflineBody],
    [SID |-> "S1", RID |-> "", MID |-> "", STIME |-> 0,
     TYPE |-> MSG_EVENT, BODY |-> OnlineBody] }

\* each of these messages with its packet
PeerPackets == {[msg |-> f, data |-> Pack(f)] : f \in PeerFrames}

PeerData == {p.data : p \in PeerPackets} \cup {PackU32(MAX_PACKET_LENGTH + 1)}

VARIABLES
  gw_fd_raw,     \* self._gw_fd_raw: a socket id, or None
  gw_fd,         \* self.gw_fd: the id of the socket the SSLSocket wraps, or None
  socks,         \* every socket ever created: "unopened", "open" or "closed"
  callback_tbl,  \* self.callback_tbl: mid -> callback
  send_queue,    \* self._send_queue: items [seq, data]; seq is the push order
  send_pc,       \* _send: "get", "connect", "write" or "dead"
  send_b,        \* _send's b, None when no item is being delivered
  send_try,      \* _send's loop index _ of range(2)
  recv_pc,       \* _recv: "start", "wait_read", "break" or "raised"
  recv_exc,      \* the exception that ended _recv, "" when none
  buf,           \* _recv's buf
  buf_reads,     \* history: non-empty reads buf was built from: 0, 1, 2 = several
  last_reads,    \* history: buf_reads of the last dispatched message
  push_pc,       \* the caller in send_push: "idle" or "connect"
  push_bundle,   \* the bundle of the send_push in progress, None when idle
  net_in,        \* octets the gateway has sent and _recv has not read yet
  pushed,        \* history: the data of every item put on the queue, in order
  writes,        \* history: every gw_fd.write call of _send, [seq, data, sock, ok]
  warns,         \* history: the item seq of every "failed to send packet"
  calls,         \* history: every receipt callback invocation
  events,        \* history: every presence collaborator invocation
  dispatched,    \* history: every message passed to _resp_handler
  regs,          \* history: mid -> number of callback registrations
  counts,        \* history: send_push calls, heartbeats, frames from the peer
  shut,          \* shutdown(): its position pc and the greenlets joinall has joined
  dec            \* Packet.UnPack alone: a buffer and what UnPack makes of it

vars ==
  << gw_fd_raw, gw_fd, socks, callback_tbl, send_queue, send_pc, send_b,
     send_try, recv_pc, recv_exc, buf, buf_reads, last_reads,
     push_pc, push_bundle, net_in, pushed,
     writes, warns, calls, events, dispatched, regs, counts, shut,
     dec >>

conn == << gw_fd_raw, gw_fd, socks >>
sender == << send_pc, send_b, send_try, writes, warns >>
producer == << send_queue, pushed, callback_tbl, regs >>
caller == << push_pc, push_bundle >>
receiver ==
  << recv_pc, recv_exc, buf, buf_reads, last_reads, calls, events, dispatched >>

\* dec.res before UnPack has been applied to dec.in
NotDecoded == [err |-> "none"]

\* the state when GatewayMgr.__init__ has returned: connect() has opened
\* socket 1, the three greenlets are spawned and have not run yet, and
\* auth() has put the authentication packet on the queue
Constructed ==
  /\ socks = [s \in 1..MaxSock |-> IF s = 1 THEN "open" ELSE "unopened"]
  /\ gw_fd_raw = 1
  /\ gw_fd = 1
  /\ callback_tbl = <<>>
  /\ send_queue = ConstructedQueue
  /\ pushed = <<AuthItem.data>>
  /\ send_pc = "get"
  /\ send_b = NoItem
  /\ send_try = 0
  /\ recv_pc = "start"
  /\ recv_exc = ""
  /\ buf = <<>>
  /\ buf_reads = 0
  /\ last_reads = 0
  /\ push_pc = "idle"
  /\ push_bundle = NoBundle
  /\ net_in = <<>>
  /\ writes = <<>>
  /\ warns = <<>>
  /\ calls = <<>>
  /\ events = <<>>
  /\ dispatched = <<>>
  /\ regs = <<>>
  /\ counts = [push |-> 0, beat |-> 0, in |-> 0]
  /\ shut = [pc |-> "idle", joined |-> {}]

Init == Constructed /\ dec = [in |-> <<>>, res |-> NotDecoded]

RegCount(m) == IF m \in DOMAIN regs THEN regs[m] ELSE 0

\* _queued_send(rid, msgtype, body, callback, mid); rnd is os.urandom's draw.
\* Queue.put on the unbounded gevent queue does not block, so no other
\* greenlet runs between the put and the registration.
QueuedSendPutOnly(rid, msgtype, body, callback, mid, rnd) ==
  LET m == MakeMid(mid, rnd)
      data == Pack(Container(rid, msgtype, body, m))
  IN /\ send_queue' = QueuePut(send_queue, [seq |-> Len(pushed) + 1, data |-> data])
     /\ pushed' = Append(pushed, data)
     /\ callback_tbl' = callback_tbl
     /\ regs' = regs
QueuedSend(rid, msgtype, body, callback, mid, rnd) ==
  LET m == MakeMid(mid, rnd)
      data == Pack(Container(rid, msgtype, body, m))
  IN /\ send_queue' = QueuePut(send_queue, [seq |-> Len(pushed) + 1, data |-> data])
     /\ pushed' = Append(pushed, data)
     /\ callback_tbl' = IF callback # None THEN TblSet(callback_tbl, m, callback)
                        ELSE callback_tbl
     /\ regs' = IF callback # None THEN TblSet(regs, m, RegCount(m) + 1) ELSE regs

\* ------------------------------------------------------------- _send
\* one iteration of "for _ in range(2)" up to its blocking call, from the
\* fields fd, raw and the sockets sk: connect() when disconnected (the new
\* socket is stored, then the TCP connect blocks), else gw_fd.write(b).
\* MaxSock caps the sockets a run may open: connect() waits when none is left.
SendIteration(fd, raw, sk) ==
  IF Disconnected(fd, raw)
  THEN /\ Unopened(sk) # {}
       /\ gw_fd_raw' = NewSock(sk)
       /\ socks' = OpenSock(sk)
       /\ gw_fd' = fd
       /\ send_pc' = "connect"
  ELSE /\ gw_fd_raw' = raw
       /\ gw_fd' = fd
       /\ socks' = sk
       /\ send_pc' = "write"

\* b = self._send_queue.get(), then the first iteration
SendGet ==
  /\ send_pc = "get"
  /\ send_queue # <<>>
  /\ send_b' = send_queue[QueueGetIndex(send_queue)]
  /\ send_queue' = QueueRest(send_queue, QueueGetIndex(send_queue))
  /\ send_try' = 0
  /\ SendIteration(gw_fd, gw_fd_raw, socks)
  /\ UNCHANGED << pushed, callback_tbl, regs, writes, warns, caller, receiver,
                  net_in, counts, shut, dec >>

\* connect() returns in _send: gw_fd wraps whatever _gw_fd_raw now holds,
\* and gw_fd.write(b) starts
SendConnectOk ==
  /\ send_pc = "connect"
  /\ IF gw_fd_raw = None
     THEN /\ send_pc' = "dead"
          /\ gw_fd' = gw_fd
          /\ send_queue' = send_queue
     ELSE /\ send_pc' = "write"
          /\ gw_fd' = gw_fd_raw
          /\ send_queue' = QueueAfterConnect(send_queue)
  /\ UNCHANGED << gw_fd_raw, socks, send_b, send_try, writes, warns, pushed,
                  callback_tbl, regs, caller, receiver, net_in, counts, shut,
                  dec >>

\* connect() raises socket.error in _send: line 188 is outside the try, the
\* exception leaves _send and the greenlet ends
SendConnectFail ==
  /\ send_pc = "connect"
  /\ send_pc' = "dead"
  /\ UNCHANGED << conn, send_b, send_try, writes, warns, producer, caller,
                  receiver, net_in, counts, shut, dec >>

\* gw_fd.write(b) returns: ok = True, break, back to the queue
SendWriteOk ==
  /\ send_pc = "write"
  /\ writes' = Append(writes, [seq |-> send_b.seq, data |-> send_b.data,
                               sock |-> gw_fd, ok |-> TRUE])
  /\ send_pc' = "get"
  /\ send_b' = NoItem
  /\ send_try' = 0
  /\ UNCHANGED << conn, warns, producer, caller, receiver, net_in, counts, shut, dec >>

\* gw_fd.write(b) raises socket.error: the raw socket is closed, both fields
\* are reset, and either the next iteration starts or the loop is exhausted
\* and the warning is logged
SendWriteFail ==
  /\ send_pc = "write"
  /\ writes' = Append(writes, [seq |-> send_b.seq, data |-> send_b.data,
                               sock |-> gw_fd, ok |-> FALSE])
  /\ IF send_try + 1 < Attempts
     THEN /\ send_try' = send_try + 1
          /\ send_b' = send_b
          /\ warns' = warns
          /\ callback_tbl' = callback_tbl
          /\ SendIteration(None, None, CloseSock(socks, gw_fd_raw))
     ELSE /\ send_try' = 0
          /\ send_b' = NoItem
          /\ warns' = Append(warns, send_b.seq)
          /\ callback_tbl' = TblAfterDrop(callback_tbl, send_b.data)
          /\ gw_fd_raw' = None
          /\ gw_fd' = None
          /\ socks' = CloseSock(socks, gw_fd_raw)
          /\ send_pc' = "get"
  /\ UNCHANGED << send_queue, pushed, regs, caller, receiver, net_in, counts,
                  shut, dec >>

\* --------------------------------------------------------- send_push
\* _queued_send of send_push for bundle b (lines 144-151)
PushQueued(b) ==
  QueuedSend(b.guid, BitOr(MSG_CLIENT, MSG_RECEIPT), b.payload, b.callback,
             PushMid(b.msgid, b.guid), "")

\* a caller enters send_push(b): connect() first when disconnected
PushCall(b) ==
  /\ push_pc = "idle"
  /\ counts.push < MaxPush
  /\ counts' = [counts EXCEPT !.push = @ + 1]
  /\ IF Disconnected(gw_fd, gw_fd_raw)
     THEN /\ Unopened(socks) # {}
          /\ gw_fd_raw' = NewSock(socks)
          /\ socks' = OpenSock(socks)
          /\ push_pc' = "connect"
          /\ push_bundle' = b
          /\ UNCHANGED << gw_fd, producer >>
     ELSE /\ PushQueued(b)
          /\ UNCHANGED << conn, caller >>
  /\ UNCHANGED << sender, receiver, net_in, shut, dec >>

\* connect() returns in send_push: gw_fd wraps whatever _gw_fd_raw now holds
\* (wrapping None raises, and nothing is queued), then _queued_send
PushConnectOk ==
  /\ push_pc = "connect"
  /\ push_pc' = "idle"
  /\ push_bundle' = NoBundle
  /\ IF gw_fd_raw = None
     THEN UNCHANGED << gw_fd, producer >>
     ELSE /\ gw_fd' = gw_fd_raw
          /\ PushQueued(push_bundle)
  /\ UNCHANGED << gw_fd_raw, socks, sender, receiver, net_in, counts, shut, dec >>

\* connect() raises in send_push: the exception goes to the caller
PushConnectFail ==
  /\ push_pc = "connect"
  /\ push_pc' = "idle"
  /\ push_bundle' = NoBundle
  /\ UNCHANGED << conn, producer, sender, receiver, net_in, counts, shut, dec >>

\* -------------------------------------------------------- _heartbeat
\* the sleep of _heartbeat ends: _queued_send('0', MSG_HEARTBEAT, '')
Heartbeat(rnd) ==
  /\ counts.beat < MaxBeat
  /\ counts' = [counts EXCEPT !.beat = @ + 1]
  /\ QueuedSend("0", MSG_HEARTBEAT, "", None, "", rnd)
  /\ UNCHANGED << conn, sender, caller, receiver, net_in, shut, dec >>

\* ------------------------------------------------------------- _recv
\* the top of _recv's loop: self.gw_fd.fileno() on gw_fd None raises
\* AttributeError, which "except socket.error" does not catch
RecvTop(fd) ==
  IF fd = None
  THEN /\ recv_pc' = "raised"
       /\ recv_exc' = "AttributeError"
  ELSE /\ recv_pc' = "wait_read"
       /\ recv_exc' = ""

\* the _recv greenlet runs for the first time
RecvStart ==
  /\ recv_pc = "start"
  /\ RecvTop(gw_fd)
  /\ UNCHANGED << conn, sender, producer, caller, buf, buf_reads, last_reads,
                  calls, events, dispatched, net_in, counts, shut, dec >>

\* socket.wait_read raises socket.error: break
RecvWaitError ==
  /\ recv_pc = "wait_read"
  /\ recv_pc' = "break"
  /\ recv_exc' = ""
  /\ UNCHANGED << conn, sender, producer, caller, buf, buf_reads, last_reads,
                  calls, events, dispatched, net_in, counts, shut, dec >>

\* self.gw_fd.read() raises socket.error, outside any try
RecvReadError ==
  /\ recv_pc = "wait_read"
  /\ gw_fd # None
  /\ recv_pc' = "raised"
  /\ recv_exc' = "socket.error"
  /\ UNCHANGED << conn, sender, producer, caller, buf, buf_reads, last_reads,
                  calls, events, dispatched, net_in, counts, shut, dec >>

\* wait_read returns and gw_fd.read() yields the next k octets; then the
\* rest of the iteration: UnPack, _resp_handler, back to wait_read
RecvRead(k) ==
  /\ recv_pc = "wait_read"
  /\ IF gw_fd = None
     THEN /\ recv_pc' = "raised"
          /\ recv_exc' = "AttributeError"
          /\ UNCHANGED << buf, buf_reads, last_reads, calls, events, dispatched,
                          net_in, callback_tbl >>
     ELSE LET acc == buf \o SubSeq(net_in, 1, k)
              n == IF k = 0 THEN buf_reads
                   ELSE IF buf_reads = 0 THEN 1 ELSE 1 + 1
              r == UnPack(acc)
          IN
          /\ net_in' = SubSeq(net_in, k + 1, Len(net_in))
          /\ IF Len(acc) = 0
             THEN /\ RecvTop(gw_fd)
                  /\ UNCHANGED << buf, buf_reads, last_reads, calls, events,
                                  dispatched, callback_tbl >>
             ELSE IF r.err = "DataNeededError"
             THEN /\ buf' = BufAfterNeedMore(acc)
                  /\ buf_reads' = n
                  /\ RecvTop(gw_fd)
                  /\ UNCHANGED << last_reads, calls, events, dispatched,
                                  callback_tbl >>
             ELSE IF r.err # ""
             THEN /\ buf' = acc
                  /\ buf_reads' = n
                  /\ recv_pc' = "raised"
                  /\ recv_exc' = r.err
                  /\ UNCHANGED << last_reads, calls, events, dispatched,
                                  callback_tbl >>
             ELSE \E o \in Outcomes(r.msg, callback_tbl) :
                  LET h == RespHandler(r.msg, callback_tbl, o) IN
                  /\ buf' = BufAfterDecode(acc)
                  /\ buf_reads' = 0
                  /\ last_reads' = n
                  /\ dispatched' = Append(dispatched, r.msg)
                  /\ callback_tbl' = h.tbl
                  /\ calls' = calls \o h.calls
                  /\ events' = events \o h.events
                  /\ IF h.exc = "KeyboardInterrupt"
                     THEN /\ recv_pc' = "break"
                          /\ recv_exc' = ""
                     ELSE IF h.exc # ""
                     THEN /\ recv_pc' = "raised"
                          /\ recv_exc' = h.exc
                     ELSE RecvTop(gw_fd)
  /\ UNCHANGED << conn, sender, send_queue, pushed, regs, caller, counts, shut, dec >>

\* ---------------------------------------------------------- the gateway
\* the gateway sends d; the octets wait to be read
PeerSend(d) ==
  /\ counts.in < MaxIn
  /\ counts' = [counts EXCEPT !.in = @ + 1]
  /\ net_in' = net_in \o d
  /\ UNCHANGED << conn, sender, producer, caller, receiver, shut, dec >>

\* the receipt the gateway returns for the written push message m: a
\* client-class frame from m's receiver whose body names m's MID
ReceiptFrame(m) ==
  [SID |-> m.RID, RID |-> m.SID, MID |-> "", STIME |-> 0, TYPE |-> MSG_CLIENT,
   BODY |-> ReceiptBody(m.MID)]

\* the gateway acknowledges the i-th write call: it went through and asked
\* for a receipt (TYPE has MSG_RECEIPT)
PeerReceipt(i) ==
  /\ counts.in < MaxIn
  /\ writes[i].ok
  /\ BitSet(UnPack(writes[i].data).msg.TYPE, MSG_RECEIPT)
  /\ counts' = [counts EXCEPT !.in = @ + 1]
  /\ net_in' = net_in \o Pack(ReceiptFrame(UnPack(writes[i].data).msg))
  /\ UNCHANGED << conn, sender, producer, caller, receiver, shut, dec >>

\* ---------------------------------------------------------- shutdown
\* self.greenlets: the three greenlets __init__ spawns
GreenletsNoBeat == {"send", "recv"}
Greenlets == {"send", "recv", "heartbeat"}

\* whether greenlet g has ended: _send by an exception of connect(), _recv
\* by break or by an exception; _heartbeat is "while True" around a sleep
\* and a _queued_send and has no way out
Finished(g) ==
  IF g = "send" THEN send_pc = "dead"
  ELSE IF g = "recv" THEN recv_pc \in {"break", "raised"}
  ELSE FALSE

\* a caller enters shutdown(): gevent.joinall(self.greenlets) blocks
ShutdownCall ==
  /\ shut.pc = "idle"
  /\ shut' = [shut EXCEPT !.pc = "joinall"]
  /\ UNCHANGED << conn, sender, producer, caller, receiver, net_in, counts,
                  dec >>

\* joinall is woken by the end of greenlet g; when that was the last one it
\* returns and self.gw_fd.close() follows (on gw_fd None: AttributeError)
ShutdownJoined(g) ==
  /\ shut.pc = "joinall"
  /\ g \notin shut.joined
  /\ Finished(g)
  /\ IF shut.joined \cup {g} = Greenlets
     THEN IF gw_fd = None
          THEN /\ shut' = [pc |-> "raised", joined |-> shut.joined \cup {g}]
               /\ socks' = socks
          ELSE /\ shut' = [pc |-> "closed", joined |-> shut.joined \cup {g}]
               /\ socks' = CloseSock(socks, gw_fd)
     ELSE /\ shut' = [shut EXCEPT !.joined = @ \cup {g}]
          /\ socks' = socks
  /\ UNCHANGED << gw_fd_raw, gw_fd, sender, producer, caller, receiver, net_in,
                  counts, dec >>

\* ------------------------------------------------- Packet.UnPack alone
\* the length prefixes of the buffers below: a length whose payload fits a
\* buffer, and lengths around and far above MAX_PACKET_LENGTH (up to
\* 2^31 - 1, the largest integer TLC computes with)
DecLengths ==
  { 6, MAX_PACKET_LENGTH - 1, MAX_PACKET_LENGTH, MAX_PACKET_LENGTH + 1,
    MAX_PACKET_LENGTH + 2, 16777216, 2147483647 }

\* what follows the prefix: up to MaxTail octets that serialize a Container
\* field
TailOctets == {1, 2}
Tails == UNION {[1..k -> TailOctets] : k \in 0..MaxTail}

\* the buffers UnPack is applied to: a prefix with a tail, or a cut prefix
DecInputs ==
  {PackU32(n) \o t : n \in DecLengths, t \in Tails}
    \cup {SubSeq(PackU32(n), 1, k) : n \in DecLengths, k \in 0..3}

InitDec ==
  /\ Constructed
  /\ dec \in {[in |-> b, res |-> NotDecoded] : b \in DecInputs}

\* Packet.UnPack(dec.in)
Decode ==
  /\ dec.res = NotDecoded
  /\ dec' = [dec EXCEPT !.res = UnPack(dec.in)]
  /\ UNCHANGED << conn, sender, producer, caller, receiver, net_in, counts,
                  shut >>

Next ==
  \/ ShutdownCall
  \/ \E g \in Greenlets : ShutdownJoined(g)
  \/ SendGet
  \/ SendConnectOk
  \/ SendConnectFail
  \/ SendWriteOk
  \/ SendWriteFail
  \/ \E b \in Bundles : PushCall(b)
  \/ PushConnectOk
  \/ PushConnectFail
  \/ \E rnd \in RandHex : Heartbeat(rnd)
  \/ RecvStart
  \/ RecvWaitError
  \/ RecvReadError
  \/ \E k \in 0..Len(net_in) : RecvRead(k)
  \/ \E d \in PeerData : PeerSend(d)
  \/ \E i \in DOMAIN writes : PeerReceipt(i)
  \/ Decode

Spec == Init /\ [][Next]_vars

\* the sending side alone: the producers and _send
NextSend ==
  \/ SendGet
  \/ SendConnectOk
  \/ SendConnectFail
  \/ SendWriteOk
  \/ SendWriteFail
  \/ \E b \in Bundles : PushCall(b)
  \/ PushConnectOk
  \/ PushConnectFail
  \/ \E rnd \in RandHex : Heartbeat(rnd)

SpecSend == Init /\ [][NextSend]_vars

\* the receiving side alone: the gateway, _recv and the callers that register
NextRecv ==
  \/ \E b \in {x \in Bundles : x.callback # None} : PushCall(b)
  \/ RecvStart
  \/ RecvWaitError
  \/ RecvReadError
  \/ \E k \in 0..Len(net_in) : RecvRead(k)
  \/ \E d \in PeerData : PeerSend(d)

SpecRecv == Init /\ [][NextRecv]_vars

\* a client-class frame that is no receipt, as octets
ChatData ==
  Pack([SID |-> "u1", RID |-> PUSH_SERVER_SID, MID |-> "", STIME |-> 0,
        TYPE |-> MSG_CLIENT, BODY |-> ChatBody])

\* both sides together: the tracked send_push calls, the heartbeats, _send
\* with its failures and reconnects, _recv, and a gateway that returns
\* receipts for what was written and sends chat frames.  Here every read
\* takes all the octets that have arrived (reads that cut a packet are in
\* SpecRecv), and wait_read and read do not fail.
NextBoth ==
  \/ SendGet
  \/ SendConnectOk
  \/ SendConnectFail
  \/ SendWriteOk
  \/ SendWriteFail
  \/ \E b \in {x \in Bundles : x.callback # None} : PushCall(b)
  \/ PushConnectOk
  \/ PushConnectFail
  \/ \E rnd \in RandHex : Heartbeat(rnd)
  \/ RecvStart
  \/ \E k \in {0, Len(net_in)} : RecvRead(k)
  \/ \E i \in DOMAIN writes : PeerReceipt(i)
  \/ PeerSend(ChatData)

SpecBoth == Init /\ [][NextBoth]_vars

\* shutdown() with the three greenlets: _send with its failures, _recv up to
\* its wait, the heartbeats.  The hub runs every greenlet that can run.
NextShut ==
  \/ ShutdownCall
  \/ \E g \in Greenlets : ShutdownJoined(g)
  \/ SendGet
  \/ SendConnectOk
  \/ SendConnectFail
  \/ SendWriteOk
  \/ SendWriteFail
  \/ \E rnd \in RandHex : Heartbeat(rnd)
  \/ RecvStart
  \/ RecvWaitError

SpecShut == Init /\ [][NextShut]_vars /\ WF_vars(NextShut)

\* Packet.UnPack applied to each of DecInputs
NextDec == Decode

SpecDec == InitDec /\ [][NextDec]_vars

\* ------------------------------------------------------------ properties
WritesOf(s) == {i \in DOMAIN writes : writes[i].seq = s}
FailsOf(s) == {i \in WritesOf(s) : ~writes[i].ok}
WarnsOf(s) == {i \in DOMAIN warns : warns[i] = s}
InQueue(s) == \E i \in DOMAIN send_queue : send_queue[i].seq = s
CallsOf(m) == {i \in DOMAIN calls : calls[i].mid = m}
Live == {s \in DOMAIN socks : socks[s] = "open"}
IsPrefix(a, b) == Len(a) <= Len(b) /\ SubSeq(b, 1, Len(a)) = a

IsAuthData(d) ==
  LET r == UnPack(d) IN
  /\ r.err = ""
  /\ r.msg.TYPE = BitOr(MSG_CLIENT, MSG_AUTH)
  /\ r.msg.BODY = AuthBody

\* a client-class message whose body has type "receipt"
IsReceipt(msg) ==
  /\ BitSet(msg.TYPE, MSG_CLIENT)
  /\ msg.BODY # ""
  /\ "type" \in DOMAIN JsonLoads(msg.BODY)
  /\ JsonLoads(msg.BODY)["type"] = "receipt"

ReceiptsFor(m) ==
  {i \in DOMAIN dispatched :
     IsReceipt(dispatched[i]) /\ JsonLoads(dispatched[i].BODY)["mid"] = m}

\* C1: items are written in the order they were pushed. The write calls of
\* _send never go back to an earlier item, an item that was written is not
\* written again, and every write call carries the octets of exactly one
\* pushed item (nothing is merged or split).
C1_WriteOrder ==
  /\ \A i, j \in DOMAIN writes : i < j => writes[i].seq <= writes[j].seq
  /\ \A i, j \in DOMAIN writes :
       (i < j /\ writes[i].ok) => writes[i].seq < writes[j].seq
  /\ \A i \in DOMAIN writes :
       /\ writes[i].seq \in DOMAIN pushed
       /\ writes[i].data = pushed[writes[i].seq]

\* two items pushed one after the other have both been written
C1_Witness ==
  \E i, j \in DOMAIN writes :
    /\ i < j
    /\ writes[i].ok
    /\ writes[j].ok
    /\ writes[i].seq < writes[j].seq

\* C2: per item at most two write calls; two failures drop the item (it is
\* not in the queue and not being delivered any more) with exactly one
\* warning; a success is the item's last write call and leaves no warning;
\* an item that was taken is never back in the queue.
C2_TwoAttempts ==
  \A s \in DOMAIN pushed :
    /\ Cardinality(WritesOf(s)) <= 2
    /\ Cardinality(WarnsOf(s)) = (IF Cardinality(FailsOf(s)) = 2 THEN 1 ELSE 0)
    /\ Cardinality(FailsOf(s)) = 2 => (~InQueue(s) /\ send_b.seq # s)
    /\ \A i \in WritesOf(s) :
         writes[i].ok => (WarnsOf(s) = {} /\ \A j \in WritesOf(s) : j <= i)
    /\ WritesOf(s) # {} => ~InQueue(s)

\* an item failed twice and was dropped, and a later item was written
C2_Witness ==
  \E s \in DOMAIN pushed :
    /\ Cardinality(FailsOf(s)) = 2
    /\ WarnsOf(s) # {}
    /\ \E i \in DOMAIN writes : writes[i].seq > s /\ writes[i].ok

\* C3: a callback registered under M is invoked at most once per
\* registration: the invocations under M, plus one when an entry for M is
\* still pending, never exceed the registrations under M.
C3_CallbackAtMostOnce ==
  \A m \in TrackedMids :
    Cardinality(CallsOf(m)) + (IF m \in DOMAIN callback_tbl THEN 1 ELSE 0)
      <= RegCount(m)

\* one registration, two receipts dispatched for it, one invocation
C3_Witness ==
  /\ RegCount(Mid1) = 1
  /\ Cardinality(ReceiptsFor(Mid1)) = 2
  /\ Cardinality(CallsOf(Mid1)) = 1

\* C4: the dispatch of a receipt for M with an entry for M invokes that
\* callback with the success status and removes the entry for M and no
\* other; with no entry for M it invokes nothing and leaves the table as
\* it is.
C4_ReceiptDispatch ==
  [][ ( /\ Len(dispatched') = Len(dispatched) + 1
        /\ IsReceipt(dispatched'[Len(dispatched')]) )
      => LET m == JsonLoads(dispatched'[Len(dispatched')].BODY)["mid"] IN
         IF m \in DOMAIN callback_tbl
         THEN /\ Len(calls') = Len(calls) + 1
              /\ SubSeq(calls', 1, Len(calls)) = calls
              /\ calls'[Len(calls')].mid = m
              /\ calls'[Len(calls')].cb = callback_tbl[m]
              /\ calls'[Len(calls')].status = STATUS_SUCCESS
              /\ DOMAIN callback_tbl' = DOMAIN callback_tbl \ {m}
              /\ \A x \in DOMAIN callback_tbl' : callback_tbl'[x] = callback_tbl[x]
         ELSE /\ calls' = calls
              /\ callback_tbl' = callback_tbl
    ]_vars

\* a receipt found its callback (called with success, entry gone) and a
\* second receipt for the same id found none
C4_Witness ==
  /\ Cardinality(ReceiptsFor(Mid1)) = 2
  /\ Len(calls) = 1
  /\ calls[1].status = STATUS_SUCCESS
  /\ Mid1 \notin DOMAIN callback_tbl

\* C5: the first write call on the connection carries the authentication
\* packet (TYPE CLIENT|AUTH, body {"token":"foo"}), so no heartbeat or push
\* packet is written before it.
C5_AuthFirst == writes # <<>> => IsAuthData(writes[1].data)

\* the authentication packet was written and another packet after it
C5_Witness ==
  /\ Len(writes) >= 2
  /\ writes[1].ok
  /\ IsAuthData(writes[1].data)
  /\ \E i \in DOMAIN writes : writes[i].ok /\ ~IsAuthData(writes[i].data)

\* C6: a read that leaves the buffer a proper prefix of a valid packet
\* dispatches nothing, keeps every octet and goes back to wait_read; the read
\* that completes the packet dispatches exactly that message, once, and
\* empties the buffer.
C6_PartialFrame ==
  [][ (recv_pc = "wait_read" /\ gw_fd # None /\ Len(net_in') < Len(net_in))
      => LET acc == buf \o SubSeq(net_in, 1, Len(net_in) - Len(net_in')) IN
         \A p \in PeerPackets :
           /\ (IsPrefix(acc, p.data) /\ acc # p.data)
                => /\ dispatched' = dispatched
                   /\ buf' = acc
                   /\ recv_pc' = "wait_read"
           /\ acc = p.data
                => /\ Len(dispatched') = Len(dispatched) + 1
                   /\ SubSeq(dispatched', 1, Len(dispatched)) = dispatched
                   /\ dispatched'[Len(dispatched')] = p.msg
                   /\ buf' = <<>>
    ]_vars

\* a packet that arrived over several reads has been dispatched
C6_Witness ==
  /\ dispatched # <<>>
  /\ dispatched[Len(dispatched)] \in PeerFrames
  /\ last_reads > 1

\* C7: an error of the response handler other than the interrupt does not
\* end _recv.
C7_HandlerErrorContained == ~(recv_pc = "raised" /\ recv_exc = "KeyError")

\* C8: a MaxLengthError of UnPack does not leave _recv and does not end it.
C8_TooLargeContained == ~(recv_pc = "raised" /\ recv_exc = "MaxLengthError")

\* C9: at most one socket is open at any time, and every open socket is
\* held by the manager (_gw_fd_raw or gw_fd).
C9_OneLiveSocket ==
  /\ Cardinality(Live) <= 1
  /\ \A s \in Live : s = gw_fd_raw \/ s = gw_fd

\* C10: no I/O failure, of a write or of a (re)connect, ends _send.
C10_SendSurvives == send_pc # "dead"

\* a server-class event message whose body has type "offline"
IsOfflineEvent(msg) ==
  /\ ~BitSet(msg.TYPE, MSG_CLIENT)
  /\ BitSet(msg.TYPE, MSG_EVENT)
  /\ msg.BODY # ""
  /\ "type" \in DOMAIN JsonLoads(msg.BODY)
  /\ JsonLoads(msg.BODY)["type"] = "offline"

\* C11: every dispatched offline event of sender S has delToOnlineTable(S)
\* invoked, and offline_callback(S) is invoked only directly after the
\* delToOnlineTable(S) of the same dispatch, never before it or without it.
C11_RemovalBeforeOffline ==
  /\ \A i \in DOMAIN events :
       events[i][1] = "offline"
         => /\ i > 1
            /\ events[i - 1] = <<"delToOnlineTable", events[i][2]>>
  /\ Cardinality({i \in DOMAIN events : events[i][1] = "delToOnlineTable"})
       = Cardinality({i \in DOMAIN dispatched : IsOfflineEvent(dispatched[i])})
  /\ \A i \in DOMAIN events :
       events[i][1] \in {"offline", "delToOnlineTable"}
         => \E j \in DOMAIN dispatched :
              IsOfflineEvent(dispatched[j]) /\ dispatched[j].SID = events[i][2]

\* an offline event from S1 was dispatched: removal, then the callback
C11_Witness ==
  /\ \E j \in DOMAIN dispatched :
       IsOfflineEvent(dispatched[j]) /\ dispatched[j].SID = "S1"
  /\ \E i \in DOMAIN events :
       /\ i > 1
       /\ events[i - 1] = <<"delToOnlineTable", "S1">>
       /\ events[i] = <<"offline", "S1">>

C13_CallbackErrorContained ==
  [][ ( /\ Len(calls') = Len(calls) + 1
        /\ calls'[Len(calls')].raised = "Exception" )
      => /\ recv_pc' = "wait_read"
         /\ recv_exc' = ""
         /\ Len(dispatched') = Len(dispatched) + 1
         /\ calls'[Len(calls')].mid \in DOMAIN callback_tbl
         /\ calls'[Len(calls')].mid \notin DOMAIN callback_tbl'
    ]_vars

\* a callback raised an Exception, and _recv went on to dispatch the next
\* message, a second receipt for the same id, without calling it again
C13_Witness ==
  /\ Len(calls) = 1
  /\ calls[1].raised = "Exception"
  /\ Cardinality(ReceiptsFor(calls[1].mid)) = 2
  /\ recv_pc = "wait_read"

\* C14: UnPack raises MaxLengthError on exactly the buffers that hold a whole
\* length prefix above 1048576, whatever follows it and also when nothing
\* follows it; a prefix of 1048576 or less never raises MaxLengthError, and
\* then DataNeededError is raised exactly when the payload is incomplete.
C14_TooLargeFirst ==
  dec.res # NotDecoded =>
    IF Len(dec.in) < 4 THEN dec.res.err = "DataNeededError"
    ELSE LET n == UnpackU32(SubSeq(dec.in, 1, 4)) IN
         IF n > 1048576 THEN dec.res.err = "MaxLengthError"
         ELSE IF Len(dec.in) < 4 + n THEN dec.res.err = "DataNeededError"
         ELSE dec.res.err = ""

\* UnPack was applied to the four octets 00 10 00 01 alone and raised
\* MaxLengthError
C14_Witness ==
  /\ dec.in = <<0, 16, 0, 1>>
  /\ dec.res.err = "MaxLengthError"

\* the Container of the i-th item put on the queue
PushedMsg(i) == UnPack(pushed[i]).msg

\* the items send_push queued: TYPE CLIENT|RECEIPT
IsPushItem(i) == PushedMsg(i).TYPE = BitOr(MSG_CLIENT, MSG_RECEIPT)

\* the id send_push supplies to _queued_send for the item: '%07s-%s' of the
\* bundle's msgid and guid, written out for the two bundles
SuppliedId(i) ==
  IF PushedMsg(i).BODY = "hi" THEN "      1-u1" ELSE "      2-u1"

\* C15 as claimed: the MID of a frame queued with a supplied id, and the key
\* its callback is registered under, are exactly the supplied id.
C15_SuppliedIdAsGiven ==
  /\ \A i \in DOMAIN pushed : IsPushItem(i) => PushedMsg(i).MID = SuppliedId(i)
  /\ \A m \in DOMAIN callback_tbl :
       \E i \in DOMAIN pushed : IsPushItem(i) /\ m = SuppliedId(i)

\* C15 as the code has it: with a supplied id the MID of the frame is "PSH"
\* followed by the supplied id, and the callback is registered under that
\* same MID; with none it is "PSH" followed by 18 hex characters.
C15_PrefixedId ==
  /\ \A i \in DOMAIN pushed :
       IF IsPushItem(i)
       THEN PushedMsg(i).MID = "PSH" \o SuppliedId(i)
       ELSE /\ \E r \in RandHex : PushedMsg(i).MID = "PSH" \o r
            /\ Len(PushedMsg(i).MID) = 21
  /\ \A m \in DOMAIN callback_tbl :
       \E i \in DOMAIN pushed : IsPushItem(i) /\ m = PushedMsg(i).MID
  /\ \A i \in DOMAIN pushed :
       (IsPushItem(i) /\ PushedMsg(i).BODY = "hi")
         => RegCount(PushedMsg(i).MID) >= 1

\* send_push has queued the bundle with a callback: the frame carries
\* "PSH      1-u1" and the callback is registered under it
C15_Witness ==
  /\ "PSH      1-u1" \in DOMAIN callback_tbl
  /\ \E i \in DOMAIN pushed : IsPushItem(i) /\ PushedMsg(i).MID = "PSH      1-u1"

\* C16: a read after which UnPack returns a message dispatches exactly one
\* message, the one at the front of the accumulated octets, and leaves buf
\* empty: octets that followed the first packet are gone, and nothing is
\* dispatched from them.
C16_BufferCleared ==
  [][ Len(dispatched') > Len(dispatched)
      => LET acc == buf \o SubSeq(net_in, 1, Len(net_in) - Len(net_in')) IN
         /\ buf' = <<>>
         /\ Len(dispatched') = Len(dispatched) + 1
         /\ SubSeq(dispatched', 1, Len(dispatched)) = dispatched
         /\ \A p \in PeerPackets :
              IsPrefix(p.data, acc) => dispatched'[Len(dispatched')] = p.msg
    ]_vars

\* the gateway sent two items, _recv has read every octet and still waits,
\* and one message was dispatched: the octets after the first packet were
\* in buf when it was decoded, and were dropped
C16_Witness ==
  /\ counts.in = 2
  /\ net_in = <<>>
  /\ buf = <<>>
  /\ recv_pc = "wait_read"
  /\ Len(dispatched) = 1

\* the message a step has just passed to _resp_handler is a receipt for m
DispatchedReceiptFor(m) ==
  /\ Len(dispatched') = Len(dispatched) + 1
  /\ IsReceipt(dispatched'[Len(dispatched')])
  /\ JsonLoads(dispatched'[Len(dispatched')].BODY)["mid"] = m

\* C17: an entry leaves the callback table only in a step that dispatches a
\* receipt naming its id.  Every other step keeps all entries: the steps of
\* _send (the drop after two failures too), the heartbeats, the reconnects,
\* and the dispatch of a message that is no receipt or names an id with no
\* entry; these invoke no callback either, and no callback is ever invoked
\* with a status other than success.
C17_OnlyReceiptRemoves ==
  [][ /\ \A m \in DOMAIN callback_tbl :
           m \notin DOMAIN callback_tbl' => DispatchedReceiptFor(m)
      /\ \A m \in DOMAIN callback_tbl :
           m \in DOMAIN callback_tbl' => callback_tbl'[m] = callback_tbl[m]
      /\ Len(calls') > Len(calls)
           => \E m \in DOMAIN callback_tbl :
                DispatchedReceiptFor(m) /\ m \notin DOMAIN callback_tbl'
      /\ (sender' # sender \/ conn' # conn \/ counts'.beat # counts.beat)
           => (calls' = calls /\ DOMAIN callback_tbl \subseteq DOMAIN callback_tbl')
      /\ \A i \in DOMAIN calls' : calls'[i].status = STATUS_SUCCESS
    ]_vars

\* a tracked push failed twice and was dropped: its callback was not called
\* and its entry is still in the table, after a chat frame was dispatched
C17_Witness ==
  \E s \in DOMAIN pushed :
    /\ IsPushItem(s)
    /\ WarnsOf(s) # {}
    /\ PushedMsg(s).MID \in DOMAIN callback_tbl
    /\ calls = <<>>
    /\ dispatched # <<>>

\* the packet data is a send_push packet (TYPE CLIENT|RECEIPT); MidOf is its MID
IsPushData(data) == UnPack(data).msg.TYPE = BitOr(MSG_CLIENT, MSG_RECEIPT)
MidOf(data) == UnPack(data).msg.MID

C19_RecvHandlePresent == recv_exc # "AttributeError"

\* the write calls made on socket s, and the first of them
WritesOn(s) == {i \in DOMAIN writes : writes[i].sock = s}
FirstOn(s) == CHOOSE i \in WritesOn(s) : \A j \in WritesOn(s) : i <= j

\* C20: the authentication packet is put on the queue once, by __init__: it
\* is the first item pushed and no other; it is on the queue only before
\* _send has taken anything; it is written only as the first write call
\* and, when that failed, as its one retry.  So the first write on a socket
\* opened by a reconnect carries the item _send is delivering or the next
\* one of the queue, and carries the authentication packet only when that
\* is the item being retried.
C20_AuthOnce ==
  /\ IsAuthData(pushed[1])
  /\ \A i \in DOMAIN pushed : IsAuthData(pushed[i]) => i = 1
  /\ \A i \in DOMAIN send_queue :
       IsAuthData(send_queue[i].data) => (i = 1 /\ writes = <<>>)
  /\ \A i \in DOMAIN writes :
       IsAuthData(writes[i].data)
         => \/ i = 1
            \/ i = 2 /\ ~writes[1].ok /\ IsAuthData(writes[1].data)
  /\ \A s \in DOMAIN socks :
       (s # 1 /\ WritesOn(s) # {})
         => LET i == FirstOn(s) IN
            /\ i > 1
            /\ \/ writes[i].seq = writes[i - 1].seq /\ ~writes[i - 1].ok
               \/ writes[i].seq > writes[i - 1].seq
            /\ writes[i].data = pushed[writes[i].seq]
            /\ IsAuthData(writes[i].data) => (i = 2 /\ ~writes[1].ok)

\* the authentication packet went out on socket 1; a later packet failed
\* there and was written again, first on the socket its reconnect opened
C20_Witness ==
  /\ Len(writes) >= 3
  /\ writes[1].ok
  /\ IsAuthData(writes[1].data)
  /\ \E s \in DOMAIN socks :
       /\ s # 1
       /\ WritesOn(s) # {}
       /\ writes[FirstOn(s)].ok
       /\ ~IsAuthData(writes[FirstOn(s)].data)
       /\ \A i \in WritesOn(s) : ~IsAuthData(writes[i].data)
====
